---- MODULE Spec2Model ----
(***************************************************************************)
(* Synology Surveillance Station camera platform                          *)
(* (homeassistant/components/camera/synology.py).                          *)
(*                                                                         *)
(* The model follows the coroutines of the file between their suspension   *)
(* points: async_setup_platform (discovery, login, enumeration, the        *)
(* per-camera login fan-out and its gather, the add-devices task),         *)
(* get_session_id, and the adapter operations async_camera_image /         *)
(* camera_image and handle_async_mjpeg_stream with the two tasks its       *)
(* finally block creates.  The NAS and the HTTP client are the             *)
(* environment: every request ends in a response, a malformed response or  *)
(* a timeout, and a coroutine may be cancelled where it is suspended.      *)
(***************************************************************************)
EXTENDS Integers, Sequences, FiniteSets, TLC

VARIABLES
    config,       \* the platform configuration (url, whitelist)
    pc,           \* position of async_setup_platform
    ret,          \* outcome of async_setup_platform
    paths,        \* auth_path / camera_api / camera_path / streaming_path locals
    session_id,   \* the setup routine's own session id
    cameras,      \* camera_resp['data']['cameras']
    devices,      \* the SynologyCamera objects, in construction order
    tasks,        \* state of each device.async_read_sid() coroutine
    addTask,      \* the task created for async_add_devices(devices)
    hostDevices,  \* what the host has been given (references into devices)
    requests,     \* HTTP requests issued by setup and by the per-camera logins
    timedOut,     \* which of those requests ended in asyncio.TimeoutError
    loginResp,    \* the login response each adapter's own request received
    op            \* the adapter operation the host is running

vars == <<config, pc, ret, paths, session_id, cameras, devices, tasks,
          addTask, hostDevices, requests, timedOut, loginResp, op>>

setupVars == <<config, pc, ret, paths, session_id, cameras, devices, tasks,
               addTask, hostDevices, requests, timedOut, loginResp>>

(***************************************************************************)
(* Bounds of the model.                                                    *)
(***************************************************************************)
MaxCameras == 2
MaxChunks == 2

(***************************************************************************)
(* Module constants of synology.py.                                        *)
(***************************************************************************)
QUERY_CGI == "query.cgi"
QUERY_API == "SYNO.API.Info"
AUTH_API == "SYNO.API.Auth"
CAMERA_API == "SYNO.SurveillanceStation.Camera"
STREAMING_API == "SYNO.SurveillanceStation.VideoStream"
WEBAPI_PATH == "/webapi/"

\* SYNO_API_URL = '{0}{1}{2}' and its .format(a, b, c)
SYNO_API_URL(a, b, c) == a \o b \o c

\* Python values of a session id: None (never assigned), False (the value
\* get_session_id returns on a timeout), or a sid string of the NAS.
None == "None"
False == "False"
Sids == {"sidA", "sidB"}

\* Cookie of a request that carries none.
NoCookie == "-"

(***************************************************************************)
(* The environment: configurations and NAS responses.                      *)
(***************************************************************************)
BaseUrl == "http://nas:5000"

Whitelists == {<<>>, <<"Front door">>}

DiscoveryResponses ==
    { [auth |-> "auth.cgi", camera |-> "camera.cgi",
       streaming |-> "videoStreaming.cgi"],
      [auth |-> "entry.cgi", camera |-> "entry.cgi",
       streaming |-> "entry.cgi"] }

Camera(i) == [id |-> i, name |-> <<"name", i>>, snapshot_path |-> <<"snapshot", i>>]

\* Enumeration responses: every list without repetition of at most
\* MaxCameras of the NAS's cameras.
CameraLists ==
    UNION { { s \in [1..n -> 1..MaxCameras] :
                \A i, j \in 1..n : i # j => s[i] # s[j] } : n \in 0..MaxCameras }

CameraResponses == { [k \in 1..Len(s) |-> Camera(s[k])] : s \in CameraLists }

\* Outcome of one login request as get_session_id sees it.
LoginOutcomes == Sids \cup {"timeout", "malformed"}

(***************************************************************************)
(* Requests.                                                               *)
(***************************************************************************)
\* by = 0 is async_setup_platform, by = i > 0 is devices[i].
Request(api, method, url, cookie, by) ==
    [api |-> api, method |-> method, url |-> url, cookie |-> cookie, by |-> by]

\* hass.websession.get(...): the n-th request with these parameters issued
\* by this caller.
Issue(reqs, r) ==
    reqs \cup { [req |-> r,
                 n |-> Cardinality({ q \in reqs : q.req.by = r.by /\ q.req.api = r.api }) + 1] }

(***************************************************************************)
(* get_session_id                                                          *)
(***************************************************************************)
\* The login request get_session_id issues.
LoginRequest(login_url, by) == Request(AUTH_API, "Login", login_url, NoCookie, by)

\* What get_session_id does with the outcome of its request: a timeout is
\* caught and False returned; otherwise auth_resp['data']['sid'] is
\* returned, which raises when the response has no such entry.
GetSessionIdResult(outcome) ==
    IF outcome = "timeout" THEN [raised |-> FALSE, value |-> False]
    ELSE IF outcome = "malformed" THEN [raised |-> TRUE, value |-> None]
    ELSE [raised |-> FALSE, value |-> outcome]

(***************************************************************************)
(* SynologyCamera.__init__                                                 *)
(***************************************************************************)
SynologyCamera(cfg, camera_id, camera_name, snapshot_path, streaming_path, camera_path, auth_path) ==
    [ name |-> camera_name,
      synology_url |-> cfg.url,
      login_url |-> cfg.url \o "/webapi/" \o "auth.cgi",
      camera_id |-> camera_id,
      snapshot_path |-> snapshot_path,
      streaming_path |-> streaming_path,
      camera_path |-> camera_path,
      auth_path |-> auth_path,
      session_id |-> None,
      writes |-> 0 ]

\* Variant: the token is an attribute shared by all adapters.
SetSessionIdAll(ds, i, v) ==
    [j \in 1..Len(ds) |-> [ds[j] EXCEPT !.session_id = v, !.writes = @ + 1]]

\* self._session_id = <value> in async_read_sid of devices[i]; writes counts
\* the assignments to that attribute.
SetSessionId(ds, i, v) ==
    [ds EXCEPT ![i].session_id = v, ![i].writes = @ + 1]

(***************************************************************************)
(* async_setup_platform                                                    *)
(***************************************************************************)
NoPaths == [auth_path |-> None, camera_api |-> None, camera_path |-> None,
            streaming_path |-> None]

IdleOp == [kind |-> "none", cam |-> 0, pc |-> "idle", requests |-> {},
           timedOut |-> FALSE, gotStream |-> FALSE, result |-> "-",
           content_type |-> "-", prepared |-> FALSE, reads |-> <<>>,
           sink |-> <<>>, relTask |-> "none", eofTask |-> "none",
           released |-> 0, eof |-> 0]

Init ==
    /\ config \in { [url |-> BaseUrl, whitelist |-> w] : w \in Whitelists }
    /\ pc = "start"
    /\ ret = "-"
    /\ paths = NoPaths
    /\ session_id = None
    /\ cameras = <<>>
    /\ devices = <<>>
    /\ tasks = <<>>
    /\ addTask = "none"
    /\ hostDevices = <<>>
    /\ requests = {}
    /\ timedOut = {}
    /\ loginResp = <<>>
    /\ op = IdleOp

\* Lines 62-77: the discovery request.
QueryRequest ==
    /\ pc = "start"
    /\ requests' = Issue(requests,
            Request(QUERY_API, "Query",
                    SYNO_API_URL(config.url, WEBAPI_PATH, QUERY_CGI), NoCookie, 0))
    /\ pc' = "query_wait"
    /\ UNCHANGED <<config, ret, paths, session_id, cameras, devices, tasks,
                   addTask, hostDevices, timedOut, loginResp, op>>

\* Lines 78-80: the discovery request timed out; return False.
QueryTimeout ==
    /\ pc = "query_wait"
    /\ timedOut' = timedOut \cup {[api |-> QUERY_API, by |-> 0]}
    /\ pc' = "returned"
    /\ ret' = False
    /\ UNCHANGED <<config, paths, session_id, cameras, devices, tasks,
                   addTask, hostDevices, requests, loginResp, op>>

\* Lines 82-86 on a response lacking one of the keys: the subscript raises.
QueryMalformed ==
    /\ pc = "query_wait"
    /\ pc' = "returned"
    /\ ret' = "raised"
    /\ UNCHANGED <<config, paths, session_id, cameras, devices, tasks,
                   addTask, hostDevices, requests, timedOut, loginResp, op>>

\* Lines 82-101: the paths are read from the response, then get_session_id
\* is entered with the discovered auth path and issues its request.
QueryResponse ==
    /\ pc = "query_wait"
    /\ \E r \in DiscoveryResponses :
         /\ paths' = [auth_path |-> r.auth, camera_api |-> r.camera,
                      camera_path |-> r.camera, streaming_path |-> r.streaming]
         /\ requests' = Issue(requests,
                LoginRequest(SYNO_API_URL(config.url, WEBAPI_PATH, r.auth), 0))
    /\ pc' = "auth_wait"
    /\ UNCHANGED <<config, ret, session_id, cameras, devices, tasks,
                   addTask, hostDevices, timedOut, loginResp, op>>

\* Lines 104-119: the enumeration request, with the session id as cookie.
CameraListRequest(sid) ==
    Request(CAMERA_API, "List",
            SYNO_API_URL(config.url, WEBAPI_PATH, paths.camera_api), sid, 0)

\* Lines 95-119 with get_session_id (lines 164-178): the setup login ends;
\* unless it raised, its return value becomes session_id and the
\* enumeration request is issued with it.
AuthDone ==
    /\ pc = "auth_wait"
    /\ \E outcome \in LoginOutcomes :
         LET res == GetSessionIdResult(outcome) IN
         /\ timedOut' = IF outcome = "timeout"
                        THEN timedOut \cup {[api |-> AUTH_API, by |-> 0]}
                        ELSE timedOut
         /\ IF res.raised
            THEN /\ pc' = "returned"
                 /\ ret' = "raised"
                 /\ UNCHANGED <<session_id, requests>>
            ELSE /\ session_id' = res.value
                 /\ requests' = Issue(requests, CameraListRequest(res.value))
                 /\ pc' = "camera_wait"
                 /\ UNCHANGED ret
    /\ UNCHANGED <<config, paths, cameras, devices, tasks, addTask,
                   hostDevices, loginResp, op>>

\* Variant: the enumeration timeout is logged but setup goes on with no
\* camera.
CameraTimeoutFallThrough ==
    /\ pc = "camera_wait"
    /\ timedOut' = timedOut \cup {[api |-> CAMERA_API, by |-> 0]}
    /\ pc' = "returned"
    /\ ret' = None
    /\ addTask' = "scheduled"
    /\ UNCHANGED <<config, paths, session_id, cameras, devices, tasks,
                   hostDevices, requests, loginResp, op>>

\* Lines 120-122: the enumeration request timed out; return False.
CameraTimeout ==
    /\ pc = "camera_wait"
    /\ timedOut' = timedOut \cup {[api |-> CAMERA_API, by |-> 0]}
    /\ pc' = "returned"
    /\ ret' = False
    /\ UNCHANGED <<config, paths, session_id, cameras, devices, tasks,
                   addTask, hostDevices, requests, loginResp, op>>

\* Lines 124-125 on a response without data.cameras: the subscript raises.
CameraMalformed ==
    /\ pc = "camera_wait"
    /\ pc' = "returned"
    /\ ret' = "raised"
    /\ UNCHANGED <<config, paths, session_id, cameras, devices, tasks,
                   addTask, hostDevices, requests, timedOut, loginResp, op>>

\* Variant: the test of line 132 without its "not".
WhitelistInverted(cfg) == cfg.whitelist # <<>>

\* Line 132: if not config.get(CONF_WHITELIST)

WhitelistAllows(cfg) == cfg.whitelist = <<>>

\* Lines 129-146: the loop that builds devices (and one task per device).
BuildDevices(cfg, cams, p) ==
    IF WhitelistAllows(cfg)
    THEN [k \in 1..Len(cams) |->
            SynologyCamera(cfg, cams[k].id, cams[k].name, cams[k].snapshot_path,
                           p.streaming_path, p.camera_path, p.auth_path)]
    ELSE <<>>

\* Lines 124-149: the enumeration response arrives, the devices and their
\* async_read_sid coroutines are created and gathered.  gather of no
\* coroutine is complete at once, so line 149 follows without a suspension.
CameraResponse ==
    /\ pc = "camera_wait"
    /\ \E cs \in CameraResponses :
         LET ds == BuildDevices(config, cs, paths) IN
         /\ cameras' = cs
         /\ devices' = ds
         /\ tasks' = [k \in 1..Len(ds) |-> "ready"]
         /\ loginResp' = [k \in 1..Len(ds) |-> "-"]
         /\ IF Len(ds) = 0
            THEN /\ addTask' = "scheduled"
                 /\ pc' = "returned"
                 /\ ret' = None
            ELSE /\ pc' = "gather"
                 /\ UNCHANGED <<addTask, ret>>
    /\ UNCHANGED <<config, paths, session_id, hostDevices, requests,
                   timedOut, op>>

\* Lines 205-213 with 155-170: devices[i].async_read_sid starts and
\* get_session_id issues the login request to the adapter's _login_url.
ReadSidStart(i) ==
    /\ tasks[i] = "ready"
    /\ requests' = Issue(requests, LoginRequest(devices[i].login_url, i))
    /\ tasks' = [tasks EXCEPT ![i] = "wait"]
    /\ UNCHANGED <<config, pc, ret, paths, session_id, cameras, devices,
                   addTask, hostDevices, timedOut, loginResp, op>>

\* Lines 171-178 and 207: the adapter's login ends; unless get_session_id
\* raised, its return value is assigned to the adapter's _session_id.
ReadSidDone(i) ==
    /\ tasks[i] = "wait"
    /\ \E outcome \in LoginOutcomes :
         LET res == GetSessionIdResult(outcome) IN
         /\ loginResp' = [loginResp EXCEPT ![i] = outcome]
         /\ timedOut' = IF outcome = "timeout"
                        THEN timedOut \cup {[api |-> AUTH_API, by |-> i]}
                        ELSE timedOut
         /\ IF res.raised
            THEN /\ tasks' = [tasks EXCEPT ![i] = "raised"]
                 /\ UNCHANGED devices
            ELSE /\ devices' = SetSessionId(devices, i, res.value)
                 /\ tasks' = [tasks EXCEPT ![i] = "done"]
    /\ UNCHANGED <<config, pc, ret, paths, session_id, cameras, addTask,
                   hostDevices, requests, op>>

\* Variant: waiting for the first coroutine only.
GatherAny(ts) == \E k \in 1..Len(ts) : ts[k] = "done"

\* asyncio.gather(*tasks) without return_exceptions: its result is ready
\* when every coroutine has returned.

GatherComplete(ts) == \A k \in 1..Len(ts) : ts[k] = "done"

\* ... and it raises the first exception a coroutine raised, while the
\* other coroutines go on running.
GatherRaised(ts) == \E k \in 1..Len(ts) : ts[k] = "raised"

\* Lines 148-149: gather returned; the add-devices task is created.
GatherReturn ==
    /\ pc = "gather"
    /\ GatherComplete(tasks)
    /\ addTask' = "scheduled"
    /\ pc' = "returned"
    /\ ret' = None
    /\ UNCHANGED <<config, paths, session_id, cameras, devices, tasks,
                   hostDevices, requests, timedOut, loginResp, op>>

\* Line 148: gather raised; async_setup_platform ends with that exception
\* and line 149 is not reached.
GatherRaise ==
    /\ pc = "gather"
    /\ GatherRaised(tasks)
    /\ pc' = "returned"
    /\ ret' = "raised"
    /\ UNCHANGED <<config, paths, session_id, cameras, devices, tasks,
                   addTask, hostDevices, requests, timedOut, loginResp, op>>

\* The task of line 149 runs: async_add_devices(devices).
AddDevices ==
    /\ addTask = "scheduled"
    /\ hostDevices' = [k \in 1..Len(devices) |-> k]
    /\ addTask' = "done"
    /\ UNCHANGED <<config, pc, ret, paths, session_id, cameras, devices,
                   tasks, requests, timedOut, loginResp, op>>

Setup ==
    \/ QueryRequest
    \/ QueryTimeout
    \/ QueryMalformed
    \/ QueryResponse
    \/ AuthDone
    \/ CameraTimeout
    \/ CameraMalformed
    \/ CameraResponse
    \/ \E i \in 1..Len(devices) : ReadSidStart(i)
    \/ \E i \in 1..Len(devices) : ReadSidDone(i)
    \/ GatherReturn
    \/ GatherRaise
    \/ AddDevices

(***************************************************************************)
(* Adapter operations.  The host calls them on the devices it was given;   *)
(* one operation is followed at a time.                                    *)
(***************************************************************************)
Images == {"jpeg"}
ContentTypes == {"multipart/x-mixed-replace"}
Chunks == {"a", "b"}

\* The host may start an operation once the previous one and the tasks it
\* left behind have run.
OpIdle ==
    /\ op.pc \in {"idle", "ended"}
    /\ op.relTask # "scheduled"
    /\ op.eofTask # "scheduled"

\* Lines 223-239: the snapshot request of async_camera_image.
ImageRequest(i) ==
    Request(CAMERA_API, "GetSnapshot",
            SYNO_API_URL(devices[i].synology_url, WEBAPI_PATH, devices[i].camera_path),
            devices[i].session_id, i)

\* Lines 215-218 / 221-239: camera_image hands async_camera_image to the
\* loop and blocks on its result; either way the coroutine starts and
\* issues its request.
StartImage(c, kind) ==
    /\ addTask = "done"
    /\ OpIdle
    /\ c \in 1..Len(hostDevices)
    /\ op' = [IdleOp EXCEPT !.kind = kind, !.cam = hostDevices[c],
                            !.pc = "image_wait",
                            !.requests = Issue({}, ImageRequest(hostDevices[c]))]
    /\ UNCHANGED setupVars

CameraImage(c) == StartImage(c, "camera_image")

AsyncCameraImage(c) == StartImage(c, "async_camera_image")

\* Variant: the snapshot request is issued again after a timeout.
ImageTimeoutRetry ==
    /\ op.pc = "image_wait"
    /\ Cardinality(op.requests) < 2
    /\ op' = [op EXCEPT !.timedOut = TRUE,
                        !.requests = Issue(op.requests, ImageRequest(op.cam))]
    /\ UNCHANGED setupVars

\* Lines 240-242: the snapshot request timed out; return None.
ImageTimeout ==
    /\ op.pc = "image_wait"
    /\ op' = [op EXCEPT !.timedOut = TRUE, !.pc = "ended", !.result = None]
    /\ UNCHANGED setupVars

\* Lines 244-247: the image is read and returned.
ImageResponse ==
    /\ op.pc = "image_wait"
    /\ \E img \in Images : op' = [op EXCEPT !.pc = "ended", !.result = img]
    /\ UNCHANGED setupVars

\* Lines 252-269: the stream request of handle_async_mjpeg_stream.
StreamRequest(i) ==
    Request(STREAMING_API, "Stream",
            SYNO_API_URL(devices[i].synology_url, WEBAPI_PATH, devices[i].streaming_path),
            devices[i].session_id, i)

StartStream(c) ==
    /\ addTask = "done"
    /\ OpIdle
    /\ c \in 1..Len(hostDevices)
    /\ op' = [IdleOp EXCEPT !.kind = "mjpeg_stream", !.cam = hostDevices[c],
                            !.pc = "connect_wait",
                            !.requests = Issue({}, StreamRequest(hostDevices[c]))]
    /\ UNCHANGED setupVars

\* Lines 270-271: the connect timed out; HTTPGatewayTimeout is raised.
StreamConnectTimeout ==
    /\ op.pc = "connect_wait"
    /\ op' = [op EXCEPT !.timedOut = TRUE, !.pc = "ended",
                        !.result = "HTTPGatewayTimeout"]
    /\ UNCHANGED setupVars

\* The caller cancels the coroutine while it waits for the connect: no
\* stream was obtained.
StreamConnectCancelled ==
    /\ op.pc = "connect_wait"
    /\ op' = [op EXCEPT !.pc = "ended", !.result = "CancelledError"]
    /\ UNCHANGED setupVars

\* Lines 264-277: the upstream response is obtained, the downstream
\* response is created with the upstream's content type and
\* response.prepare(request) is awaited.
StreamConnected ==
    /\ op.pc = "connect_wait"
    /\ \E ct \in ContentTypes :
         op' = [op EXCEPT !.gotStream = TRUE, !.content_type = ct,
                          !.pc = "prepare_wait"]
    /\ UNCHANGED setupVars

\* Line 277 raises, or the coroutine is cancelled there: the statement is
\* outside the try block, so the exception leaves the coroutine directly.
PrepareFailed ==
    /\ op.pc = "prepare_wait"
    /\ \E e \in {"raised", "CancelledError"} :
         op' = [op EXCEPT !.pc = "ended", !.result = e]
    /\ UNCHANGED setupVars

\* Line 277 returns and the loop of lines 279-281 awaits its first read.
PrepareDone ==
    /\ op.pc = "prepare_wait"
    /\ op' = [op EXCEPT !.prepared = TRUE, !.pc = "read_wait"]
    /\ UNCHANGED setupVars

\* Lines 285-287: the finally block creates one task for stream.release()
\* and one for response.write_eof().
Finally(o) == [o EXCEPT !.relTask = "scheduled", !.eofTask = "scheduled"]

\* Variant: the loop never sees the end of the stream.
NotAlways(data) == FALSE

\* Line 282: if not data

Not(data) == data = ""

\* Lines 281-287: a read returns data; empty data breaks out of the loop
\* into the finally block, other data is written to the response and the
\* next read is awaited.
ReadChunk ==
    /\ op.pc = "read_wait"
    /\ \E data \in Chunks \cup {""} :
         /\ data # "" => Len(op.sink) < MaxChunks
         /\ LET o == [op EXCEPT !.reads = Append(@, data)] IN
            IF Not(data)
            THEN op' = Finally([o EXCEPT !.pc = "ended", !.result = None])
            ELSE op' = [o EXCEPT !.sink = Append(@, data)]
    /\ UNCHANGED setupVars

\* Line 284: response.write(data) raises for the data just read; the
\* finally block runs and the exception leaves the coroutine.
WriteFailed ==
    /\ op.pc = "read_wait"
    /\ \E data \in Chunks :
         op' = Finally([op EXCEPT !.reads = Append(@, data), !.pc = "ended",
                                  !.result = "raised"])
    /\ UNCHANGED setupVars

\* Line 281: the read raises, or the coroutine is cancelled while it waits
\* for the read; the finally block runs.
ReadFailed ==
    /\ op.pc = "read_wait"
    /\ \E e \in {"raised", "CancelledError"} :
         op' = Finally([op EXCEPT !.pc = "ended", !.result = e])
    /\ UNCHANGED setupVars

\* The task of line 286 runs: stream.release().
ReleaseTask ==
    /\ op.relTask = "scheduled"
    /\ op' = [op EXCEPT !.relTask = "done", !.released = @ + 1]
    /\ UNCHANGED setupVars

\* The task of line 287 runs: response.write_eof().
WriteEofTask ==
    /\ op.eofTask = "scheduled"
    /\ op' = [op EXCEPT !.eofTask = "done", !.eof = @ + 1]
    /\ UNCHANGED setupVars

Operations ==
    \/ \E c \in 1..Len(hostDevices) : CameraImage(c)
    \/ \E c \in 1..Len(hostDevices) : AsyncCameraImage(c)
    \/ ImageTimeout
    \/ ImageResponse
    \/ \E c \in 1..Len(hostDevices) : StartStream(c)
    \/ StreamConnectTimeout
    \/ StreamConnectCancelled
    \/ StreamConnected
    \/ PrepareFailed
    \/ PrepareDone
    \/ ReadChunk
    \/ WriteFailed
    \/ ReadFailed
    \/ ReleaseTask
    \/ WriteEofTask

Next == Setup \/ Operations

(***************************************************************************)
(* Properties.                                                             *)
(***************************************************************************)
AllRequests == requests \cup op.requests

Authenticated(q) == q.req.api \in {CAMERA_API, STREAMING_API}

Adapters == 1..Len(devices)

\* C1: every authenticated request (camera List, GetSnapshot, Stream)
\* carries in its id cookie a session token returned by a successful login,
\* never the failure value of a timed-out login nor an unset token.
C1_AuthenticatedRequestsCarryLoginToken ==
    \A q \in AllRequests : Authenticated(q) => q.req.cookie \in Sids

\* C2: once handle_async_mjpeg_stream holds the upstream response, however
\* the operation ends, the release of the upstream connection and the
\* end-of-output signal to the sink have been set going.
C2_EveryExitReleasesAndSignalsEof ==
    (op.kind = "mjpeg_stream" /\ op.gotStream /\ op.pc = "ended")
        => (op.relTask # "none" /\ op.eofTask # "none")

\* C3: the relay writes the non-empty chunks it read, in order and
\* unmodified, never the empty read; it reads nothing after an empty read;
\* and after an upstream end of stream it has written every chunk read
\* before it, releases the upstream once and signals end-of-output once.
C3_RelayForwardsChunksThenCloses ==
    op.kind = "mjpeg_stream" =>
        /\ op.released <= 1
        /\ op.eof <= 1
        /\ \A k \in 1..(Len(op.reads) - 1) : op.reads[k] # ""
        /\ \A k \in 1..Len(op.sink) : op.sink[k] # "" /\ op.sink[k] = op.reads[k]
        /\ op.pc = "read_wait" => op.sink = op.reads
        /\ (op.pc = "ended" /\ op.result = None) =>
              /\ op.reads = op.sink \o <<"">>
              /\ op.relTask # "none"
              /\ op.eofTask # "none"
              /\ op.relTask = "done" => op.released = 1
              /\ op.eofTask = "done" => op.eof = 1

C3_Witness ==
    /\ op.kind = "mjpeg_stream"
    /\ op.pc = "ended"
    /\ op.result = None
    /\ op.reads = <<"a", "b", "">>
    /\ op.sink = <<"a", "b">>
    /\ op.released = 1
    /\ op.eof = 1

\* C4: when a camera's login of the fan-out fails (timeout or malformed
\* response), setup is not aborted and the adapters are handed to the host.
C4_FailedLoginDoesNotAbortSetup ==
    (pc = "returned" /\ \E i \in Adapters : loginResp[i] \in {"timeout", "malformed"})
        => (ret # "raised" /\ addTask # "none")

\* C5: devices are handed to the host only after every adapter's
\* async_read_sid has completed; none is registered while a per-camera
\* login is still to run or in flight.
C5_RegistrationAfterAllLogins ==
    (addTask # "none" \/ hostDevices # <<>>)
        => \A i \in Adapters : tasks[i] \notin {"ready", "wait"}

C5_Witness ==
    /\ addTask = "done"
    /\ Len(hostDevices) = MaxCameras
    /\ \A i \in Adapters : tasks[i] = "done"

\* C6 as stated: every adapter's token is written exactly once, by its own
\* async_read_sid, with the data.sid value of its own login response.
C6_TokenWrittenOnceWithOwnSid ==
    \A i \in Adapters :
        /\ tasks[i] \in {"ready", "wait"} =>
              (devices[i].writes = 0 /\ devices[i].session_id = None)
        /\ tasks[i] \in {"done", "raised"} =>
              /\ devices[i].writes = 1
              /\ devices[i].session_id \in Sids
              /\ devices[i].session_id = loginResp[i]

\* C6 amended: every adapter's token is written at most once, only by its
\* own async_read_sid: with the data.sid value of its own login response
\* when the login succeeds, with False when the login times out, and not at
\* all when the response has no data.sid; no login of another adapter and
\* no later operation changes it.
C6_TokenWrittenAtMostOnceByOwnLogin ==
    \A i \in Adapters :
        /\ tasks[i] \in {"ready", "wait"} =>
              (devices[i].writes = 0 /\ devices[i].session_id = None)
        /\ tasks[i] = "done" =>
              /\ devices[i].writes = 1
              /\ loginResp[i] \in Sids \cup {"timeout"}
              /\ loginResp[i] \in Sids => devices[i].session_id = loginResp[i]
              /\ loginResp[i] = "timeout" => devices[i].session_id = False
        /\ tasks[i] = "raised" =>
              /\ devices[i].writes = 0
              /\ devices[i].session_id = None
              /\ loginResp[i] = "malformed"

C6_Witness ==
    /\ Len(devices) = 2
    /\ loginResp = <<"sidA", "timeout">>
    /\ devices[1].session_id = "sidA"
    /\ devices[2].session_id = False
    /\ op.kind = "mjpeg_stream"
    /\ op.pc = "ended"

\* C7: a timeout of the discovery request or of the enumeration request
\* ends setup with False and nothing else: after a discovery timeout no
\* login or enumeration request exists, after an enumeration timeout no
\* adapter and no per-camera login exists, and nothing is registered.
C7_SetupTimeoutAborts ==
    /\ [api |-> QUERY_API, by |-> 0] \in timedOut =>
          /\ pc = "returned"
          /\ ret = False
          /\ \A q \in requests : q.req.api = QUERY_API
          /\ devices = <<>>
          /\ addTask = "none"
          /\ hostDevices = <<>>
    /\ [api |-> CAMERA_API, by |-> 0] \in timedOut =>
          /\ pc = "returned"
          /\ ret = False
          /\ devices = <<>>
          /\ \A q \in requests : q.req.by = 0
          /\ addTask = "none"
          /\ hostDevices = <<>>

C7_Witness ==
    /\ [api |-> CAMERA_API, by |-> 0] \in timedOut
    /\ pc = "returned"
    /\ session_id \in Sids

\* C8: no invocation issues a second request; a login that times out
\* yields False without raising (setup goes on to the enumeration request,
\* the adapter stores False), a snapshot that times out returns None, and a
\* stream connect that times out raises HTTPGatewayTimeout with no
\* downstream response prepared and nothing written to the sink.
C8_TimeoutsNotRetried ==
    /\ \A q \in AllRequests : q.n = 1
    /\ Cardinality(op.requests) <= 1
    /\ [api |-> AUTH_API, by |-> 0] \in timedOut =>
          /\ session_id = False
          /\ \E q \in requests : q.req.api = CAMERA_API
    /\ \A i \in Adapters :
          [api |-> AUTH_API, by |-> i] \in timedOut =>
              (tasks[i] = "done" /\ devices[i].session_id = False)
    /\ (op.timedOut /\ op.kind \in {"camera_image", "async_camera_image"}) =>
          (op.pc = "ended" /\ op.result = None)
    /\ (op.timedOut /\ op.kind = "mjpeg_stream") =>
          /\ op.pc = "ended"
          /\ op.result = "HTTPGatewayTimeout"
          /\ ~op.prepared
          /\ op.sink = <<>>
          /\ op.eofTask = "none"

C8_Witness ==
    /\ op.timedOut
    /\ op.kind = "camera_image"
    /\ op.pc = "ended"
    /\ [api |-> AUTH_API, by |-> 1] \in timedOut

\* C9: with an empty whitelist the adapters are one per enumerated camera,
\* in enumeration order, each with that camera's id, name and snapshot
\* path, and the host is given all of them in that order; with a non-empty
\* whitelist there is no adapter and no per-camera login.
Descriptor(d) == [id |-> d.camera_id, name |-> d.name, snapshot_path |-> d.snapshot_path]

C9_AdaptersFollowEnumeration ==
    /\ config.whitelist = <<>> =>
          [k \in 1..Len(devices) |-> Descriptor(devices[k])] = cameras
    /\ config.whitelist # <<>> =>
          (devices = <<>> /\ \A q \in requests : q.req.by = 0)
    /\ addTask = "done" => hostDevices = [k \in 1..Len(devices) |-> k]
    /\ addTask # "done" => hostDevices = <<>>

C9_Witness ==
    /\ addTask = "done"
    /\ config.whitelist = <<>>
    /\ Len(cameras) = 2
    /\ cameras[1].id = 2
    /\ Len(hostDevices) = 2
    /\ devices[hostDevices[1]].camera_id = 2

\* C10: every login request, the setup's and each adapter's, goes to
\* <base>/webapi/<auth_path> with the Auth path that discovery resolved.
C10_LoginsUseDiscoveredAuthPath ==
    \A q \in requests :
        q.req.api = AUTH_API =>
            q.req.url = SYNO_API_URL(config.url, WEBAPI_PATH, paths.auth_path)

Spec == Init /\ [][Next]_vars
====
